---- MODULE Spec2Model ----
(***************************************************************************)
(* Model of the external authorization service of                          *)
(* src/policy_engine/main.go: the Check handler, its request logging, the  *)
(* five-rule policy chain of evaluatePolicy and the two response builders. *)
(*                                                                         *)
(* Strings are sequences of symbols.  Text that the code inspects          *)
(* (paths, header values) is spelled character by character; a fixed       *)
(* phrase the code only copies is one symbol.                              *)
(***************************************************************************)
EXTENDS Integers, Sequences, FiniteSets, TLC

\* ------------------------------------------------------------------ bounds

\* Clock advances allowed during one invocation of Check.
MaxTicks == 1

\* Minutes by which one advance of the wall clock moves it.
TickMinutes == 30

\* ------------------------------------------------------- program constants

BusinessStart == 9
BusinessEnd == 17
CodeOK == 0
CodeInvalidArgument == 3
CodePermissionDenied == 7
StatusForbidden == 403

\* ----------------------------------------------------------------- strings

Lit(s) == <<s>>

EmptyString == <<>>

\* strings.HasPrefix
HasPrefix(s, p) == Len(s) >= Len(p) /\ SubSeq(s, 1, Len(p)) = p

\* strings.Contains
Contains(s, sub) ==
    \E i \in 0..(Len(s) - Len(sub)) : SubSeq(s, i + 1, i + Len(sub)) = sub

LowerOf(c) ==
    CASE c = "A" -> "a" [] c = "B" -> "b" [] c = "G" -> "g" [] c = "I" -> "i"
      [] c = "L" -> "l" [] c = "M" -> "m" [] c = "O" -> "o" [] c = "T" -> "t"
      [] c = "Z" -> "z" [] OTHER -> c

\* strings.ToLower
ToLower(s) == [i \in 1..Len(s) |-> LowerOf(s[i])]

AdminPrefix == <<"/", "a", "d", "m", "i", "n">>

BotWord == <<"b", "o", "t">>

\* ------------------------------------------------------------------- clock

\* An instant of the server's wall clock is a day, an hour and a minute.
\* The instants at which a request may arrive:
ArrivalHours == {8, 11, 16, 23}

ArrivalInstants == [day : {1}, hour : ArrivalHours, minute : {30}]

Advance(t) ==
    LET m == t.minute + TickMinutes
        h == t.hour + (m \div 60)
    IN  [day |-> t.day + (h \div 24), hour |-> h % 24, minute |-> m % 60]

\* The instant at which the invocation began, n advances of the clock ago.
RECURSIVE AdvancedTimes(_, _)
AdvancedTimes(t, n) == IF n = 0 THEN t ELSE AdvancedTimes(Advance(t), n - 1)

ArrivalOf(t, n) == CHOOSE a \in ArrivalInstants : AdvancedTimes(a, n) = t

TwoDigits(n) == <<ToString(n \div 10), ToString(n % 10)>>

\* time.Time.Format("3:04 PM")
FormatKitchen(t) ==
    LET h12 == IF t.hour % 12 = 0 THEN 12 ELSE t.hour % 12
    IN  <<ToString(h12), ":">> \o TwoDigits(t.minute)
            \o <<" ", IF t.hour >= 12 THEN "PM" ELSE "AM">>

\* time.Time.Format(time.RFC3339)
FormatRFC3339(t) ==
    <<"day", ToString(t.day), "T">> \o TwoDigits(t.hour) \o <<":">>
        \o TwoDigits(t.minute) \o <<":", "0", "0", "Z">>

\* ------------------------------------------------------------------ inputs

Nil == [nil |-> TRUE]

Methods == {"GET", "POST", "post"}

PathAdmin == AdminPrefix
PathAdminUsers == AdminPrefix \o <<"/", "u", "s", "e", "r", "s">>
PathAdministrator == AdminPrefix \o <<"i", "s", "t", "r", "a", "t", "o", "r">>
PathApiUsers == <<"/", "a", "p", "i", "/", "u", "s", "e", "r", "s">>
PathAdm == <<"/", "a", "d", "m">>
PathAdminCapital == <<"/", "A", "d", "m", "i", "n">>

Paths ==
    {PathAdmin, PathAdminUsers, PathAdministrator, PathApiUsers, PathAdm,
     PathAdminCapital}

BearerA == <<"B", "e", "a", "r", "e", "r", " ", "a">>
ValueTrue == <<"t", "r", "u", "e">>
ValueTrueUpper == <<"T", "R", "U", "E">>
AgentMozilla == <<"M", "O", "Z", "I", "L", "L", "A">>
AgentGoogleBot ==
    <<"M", "o", "z", "i", "l", "l", "a", "/", "5", ".", "0", " ",
      "G", "o", "o", "g", "l", "e", "B", "o", "t">>

EnvProduction == Lit("production")
EnvStaging == Lit("staging")
RegionWest == Lit("us-west-1")

\* A map with string keys: a function on a finite set of keys.
MapsOver(choices) ==
    UNION {[ks -> UNION {choices[k] : k \in ks}] : ks \in SUBSET DOMAIN choices}

MapsFrom(choices) ==
    {m \in MapsOver(choices) : \A k \in DOMAIN m : m[k] \in choices[k]}

HeaderChoices ==
    [k \in {"authorization", "x-production-access", "user-agent"} |->
        CASE k = "authorization" -> {EmptyString, BearerA}
          [] k = "x-production-access" -> {ValueTrue, ValueTrueUpper}
          [] k = "user-agent" -> {AgentMozilla, AgentGoogleBot}]

HeaderMaps == MapsFrom(HeaderChoices)

ExtensionChoices ==
    [k \in {"environment", "region"} |->
        CASE k = "environment" -> {EnvProduction, EnvStaging, EmptyString}
          [] k = "region" -> {RegionWest}]

ExtensionMaps == MapsFrom(ExtensionChoices)

HttpRequests ==
    [nil : {FALSE}, method : Methods, path : Paths, headers : HeaderMaps,
     host : {Lit("example.com")}, scheme : {Lit("https")}, size : {0},
     body : {EmptyString}]

\* The received-at time of a request is absent or an instant.
Requests == [nil : {FALSE}, http : HttpRequests \cup {Nil}, time : {Nil}]

\* The network and TLS records of a context: all absent, or all present.
Peers == {[source |-> Nil, destination |-> Nil, tlsSession |-> Nil]}

Attributes ==
    {[nil |-> FALSE, request |-> r, contextExtensions |-> x,
      source |-> p.source, destination |-> p.destination,
      tlsSession |-> p.tlsSession] :
        r \in Requests \cup {Nil}, x \in ExtensionMaps, p \in Peers}

CheckRequests == [attributes : Attributes \cup {Nil}]

\* ------------------------------------------------------------------- state

VARIABLES
    pc,         \* where the invocation of Check stands
    creq,       \* the CheckRequest being served
    clock,      \* the server's wall clock
    ticks,      \* advances of the clock during this invocation
    now,        \* evaluatePolicy's local `now`, read for the time-window rule
    decision,   \* the policyDecision
    resp,       \* the CheckResponse returned
    err,        \* the gRPC error returned
    logged,     \* the lines written to the log by this invocation
    steps,      \* the statements of the handler executed so far, in order
    first,      \* the decision of an earlier evaluation of the same context
    other       \* the frame of a second invocation, while it is not running

vars ==
    <<pc, creq, clock, ticks, now, decision, resp, err, logged, steps, first,
      other>>

NoInstant == [day |-> 0, hour |-> 0, minute |-> 0]

NoRequest == [attributes |-> Nil]

\* The frame of an invocation that has not started.
IdleFrame ==
    [pc |-> "idle", creq |-> NoRequest, now |-> NoInstant, decision |-> Nil,
     resp |-> Nil, err |-> Nil, logged |-> <<>>, steps |-> <<>>]

Init ==
    /\ pc = "idle"
    /\ creq = NoRequest
    /\ clock \in ArrivalInstants
    /\ ticks = 0
    /\ now = NoInstant
    /\ decision = Nil
    /\ resp = Nil
    /\ err = Nil
    /\ logged = <<>>
    /\ steps = <<>>
    /\ first = Nil
    /\ other = IdleFrame

\* The generated accessors: each answers the zero value on a nil receiver.
GetRequest(a) == IF a.nil THEN Nil ELSE a.request
GetHttp(r) == IF r.nil THEN Nil ELSE r.http
GetMethod(h) == IF h.nil THEN "" ELSE h.method
GetPath(h) == IF h.nil THEN EmptyString ELSE h.path
GetHeaders(h) == IF h.nil THEN <<>> ELSE h.headers
GetContextExtensions(a) == IF a.nil THEN <<>> ELSE a.contextExtensions

\* The locals of Check and evaluatePolicy.
attrs == creq.attributes
req == GetRequest(attrs)
httpReq == GetHttp(req)
method == GetMethod(httpReq)
path == GetPath(httpReq)
headers == GetHeaders(httpReq)
contextExts == GetContextExtensions(attrs)

\* ------------------------------------------------------------ policy rules

\* Mutant of Policy1Denies: the prefix is matched without regard to case.
Policy1DeniesAnyCase(p) == HasPrefix(ToLower(p), AdminPrefix)

\* Policy 1: the path starts with the admin prefix.
Policy1Denies(p) == HasPrefix(p, AdminPrefix)

Policy1Reason(p) == Lit("access denied to admin path: ") \o p

\* Mutant of Policy2Denies: an empty authorization value is accepted.
Policy2DeniesOnlyAbsent(m, h) ==
    m = "POST" /\ "authorization" \notin DOMAIN h

\* Policy 2: a POST without a non-empty authorization header.
Policy2Denies(m, h) ==
    /\ m = "POST"
    /\ \/ "authorization" \notin DOMAIN h
       \/ h["authorization"] = EmptyString

Policy2Reason == Lit("POST requests require Authorization header")

\* Mutant of Policy3Denies: the closing hour itself still passes.
Policy3DeniesAfterClosingHour(t) ==
    t.hour < BusinessStart \/ t.hour > BusinessEnd

\* Mutant of Policy3Denies: the opening hour itself is still refused.
Policy3DeniesOpeningHour(t) ==
    t.hour <= BusinessStart \/ t.hour >= BusinessEnd

\* Mutant of Policy3Denies: the closing bound is forgotten.
Policy3DeniesBeforeOpeningOnly(t) == t.hour < BusinessStart

\* Policy 3: the hour of the clock reading is outside business hours.
Policy3Denies(t) == t.hour < BusinessStart \/ t.hour >= BusinessEnd

\* Mutant of Policy3Reason: the time printed is the one at which the request
\* arrived, not the reading the rule tested.
Policy3ReasonArrivalTime(t) ==
    Lit("access restricted to business hours (9 AM - 5 PM), current time: ")
        \o FormatKitchen(ArrivalOf(t, ticks))

Policy3Reason(t) ==
    Lit("access restricted to business hours (9 AM - 5 PM), current time: ")
        \o FormatKitchen(t)

\* Mutant of Policy4Denies: any value of the special header is accepted.
Policy4DeniesOnlyAbsent(exts, h) ==
    /\ "environment" \in DOMAIN exts
    /\ exts["environment"] = EnvProduction
    /\ "x-production-access" \notin DOMAIN h

\* Policy 4: production without the special header.
Policy4Denies(exts, h) ==
    /\ "environment" \in DOMAIN exts
    /\ exts["environment"] = EnvProduction
    /\ \/ "x-production-access" \notin DOMAIN h
       \/ h["x-production-access"] # ValueTrue

Policy4Reason == Lit("production environment requires x-production-access header")

\* Mutant of Policy5Denies: the user agent is matched as sent, not lower-cased.
Policy5DeniesCaseSensitive(h) ==
    /\ "user-agent" \in DOMAIN h
    /\ Contains(h["user-agent"], BotWord)

\* Mutant of Policy5Denies: a limiter that also turns away an agent it has
\* already seen once.
Policy5DeniesRateLimited(h) ==
    /\ "user-agent" \in DOMAIN h
    /\ \/ Contains(ToLower(h["user-agent"]), BotWord)
       \/ \E i \in DOMAIN steps : steps[i] = "p5"

\* Policy 5: the lower-cased user agent contains "bot".
Policy5Denies(h) ==
    /\ "user-agent" \in DOMAIN h
    /\ Contains(ToLower(h["user-agent"]), BotWord)

Policy5Reason == Lit("bot user agents are not allowed")

\* Mutant of DenyDecision: the reason is left out of the denial.
DenyDecisionUnexplained(reason) ==
    [nil |-> FALSE, allowed |-> FALSE, reason |-> EmptyString,
     headers |-> <<>>, headersToRemove |-> <<>>]

\* Mutant of DenyDecision: the denial also asks for authorization to be removed.
DenyDecisionStripping(reason) ==
    [nil |-> FALSE, allowed |-> FALSE, reason |-> reason,
     headers |-> <<>>, headersToRemove |-> <<"authorization">>]

\* policyDecision{allowed: false, reason: ...}: no headers, nothing to remove.
DenyDecision(reason) ==
    [nil |-> FALSE, allowed |-> FALSE, reason |-> reason,
     headers |-> <<>>, headersToRemove |-> <<>>]

AllowReason == Lit("request meets all policy requirements")

\* Mutant of AllowDecision: authorization is removed only when it was sent.
AllowDecisionStripIfSent(t, exts) ==
    [nil |-> FALSE, allowed |-> TRUE, reason |-> AllowReason,
     headers |-> ("x-authorized-by" :> Lit("policy-engine"))
                    @@ ("x-decision-time" :> FormatRFC3339(t)),
     headersToRemove |-> IF "authorization" \in DOMAIN headers
                         THEN <<"authorization">> ELSE <<>>]

\* Mutant of AllowDecision: x-environment and x-region are set without the
\* presence test, to the zero value when the key is absent.
AllowDecisionUnguardedCopies(t, exts) ==
    [nil |-> FALSE, allowed |-> TRUE, reason |-> AllowReason,
     headers |->
        ("x-authorized-by" :> Lit("policy-engine"))
            @@ ("x-decision-time" :> FormatRFC3339(t))
            @@ ("x-environment" :>
                    IF "environment" \in DOMAIN exts
                    THEN exts["environment"] ELSE EmptyString)
            @@ ("x-region" :>
                    IF "region" \in DOMAIN exts
                    THEN exts["region"] ELSE EmptyString),
     headersToRemove |-> <<"authorization">>]

\* Mutant of AllowDecision: an empty extension value is treated as absent.
AllowDecisionSkipsEmptyValues(t, exts) ==
    [nil |-> FALSE, allowed |-> TRUE, reason |-> AllowReason,
     headers |->
        ("x-authorized-by" :> Lit("policy-engine"))
            @@ ("x-decision-time" :> FormatRFC3339(t))
            @@ (IF "environment" \in DOMAIN exts /\ exts["environment"] # EmptyString
                THEN "x-environment" :> exts["environment"] ELSE <<>>)
            @@ (IF "region" \in DOMAIN exts /\ exts["region"] # EmptyString
                THEN "x-region" :> exts["region"] ELSE <<>>),
     headersToRemove |-> <<"authorization">>]

\* The allow decision, built from the clock reading t and the extensions.
AllowDecisionSharedMap(t, exts) ==
    LET base == ("x-authorized-by" :> Lit("policy-engine"))
                    @@ ("x-decision-time" :> FormatRFC3339(t))
        env == IF "environment" \in DOMAIN exts
               THEN "x-environment" :> exts["environment"] ELSE <<>>
        region == IF "region" \in DOMAIN exts
                  THEN "x-region" :> exts["region"] ELSE <<>>
        kept == IF other.decision.nil THEN <<>> ELSE other.decision.headers
    IN  [nil |-> FALSE, allowed |-> TRUE, reason |-> AllowReason,
         headers |-> region @@ env @@ base @@ kept,
         headersToRemove |-> <<"authorization">>]

AllowDecision(t, exts) ==
    LET base == ("x-authorized-by" :> Lit("policy-engine"))
                    @@ ("x-decision-time" :> FormatRFC3339(t))
        env == IF "environment" \in DOMAIN exts
               THEN "x-environment" :> exts["environment"] ELSE <<>>
        region == IF "region" \in DOMAIN exts
                  THEN "x-region" :> exts["region"] ELSE <<>>
    IN  [nil |-> FALSE, allowed |-> TRUE, reason |-> AllowReason,
         headers |-> region @@ env @@ base,
         headersToRemove |-> <<"authorization">>]

\* Mutant of RuleChain: the POST rule is tried before the path rule.
RuleChainPostFirst == <<"p2", "p1", "p3", "p4", "p5">>

\* Mutant of RuleChain: the time-window rule, and with it the clock reading,
\* comes first.
RuleChainClockFirst == <<"p3", "p1", "p2", "p4", "p5">>

\* The order in which evaluatePolicy runs its rules.
RuleChain == <<"p1", "p2", "p3", "p4", "p5">>

FirstRule == RuleChain[1]

\* Mutant of RuleAfter: when the last rule passes the chain is run again.
RuleAfterRetrying(p) ==
    LET i == CHOOSE j \in 1..Len(RuleChain) : RuleChain[j] = p
    IN  IF i < Len(RuleChain) THEN RuleChain[i + 1] ELSE FirstRule

\* Where control goes when rule p passes: the next rule, or the allow.
RuleAfter(p) ==
    LET i == CHOOSE j \in 1..Len(RuleChain) : RuleChain[j] = p
    IN  IF i < Len(RuleChain) THEN RuleChain[i + 1] ELSE "allow"

\* -------------------------------------------------------------- responses

\* The orders in which a range over map m may visit its keys.
KeyOrders(m) ==
    {o \in [1..Cardinality(DOMAIN m) -> DOMAIN m] :
        \A i, j \in DOMAIN o : o[i] = o[j] => i = j}

HeaderOption(key, value, append) ==
    [header |-> [key |-> key, value |-> value], append |-> append]

BoolValue(b) == [nil |-> FALSE, value |-> b]

\* Mutant of AllowResponse: the entries are marked append instead of replace.
AllowResponseAppending(d, o) ==
    [nil |-> FALSE,
     status |-> [code |-> CodeOK, message |-> d.reason],
     okResponse |->
        [nil |-> FALSE,
         headers |-> [i \in DOMAIN o |->
                        HeaderOption(o[i], d.headers[o[i]], BoolValue(TRUE))],
         headersToRemove |-> d.headersToRemove,
         responseHeadersToAdd |-> <<>>],
     deniedResponse |-> Nil]

\* buildAllowResponse, its range over decision.headers taken in order o.
AllowResponse(d, o) ==
    [nil |-> FALSE,
     status |-> [code |-> CodeOK, message |-> d.reason],
     okResponse |->
        [nil |-> FALSE,
         headers |-> [i \in DOMAIN o |->
                        HeaderOption(o[i], d.headers[o[i]], BoolValue(FALSE))],
         headersToRemove |-> d.headersToRemove,
         responseHeadersToAdd |-> <<>>],
     deniedResponse |-> Nil]

\* Mutant of DenyResponse: the denial goes out under the OK status code.
DenyResponseCodeOK(d) ==
    [nil |-> FALSE,
     status |-> [code |-> CodeOK, message |-> d.reason],
     okResponse |-> Nil,
     deniedResponse |->
        [nil |-> FALSE,
         status |-> [code |-> StatusForbidden],
         headers |-> <<HeaderOption("x-auth-denied", ValueTrue, Nil),
                       HeaderOption("x-auth-reason", d.reason, Nil)>>,
         body |-> Lit("Access Denied: ") \o d.reason]]

\* Mutant of DenyResponse: the body is the bare reason.
DenyResponseBareBody(d) ==
    [nil |-> FALSE,
     status |-> [code |-> CodePermissionDenied, message |-> d.reason],
     okResponse |-> Nil,
     deniedResponse |->
        [nil |-> FALSE,
         status |-> [code |-> StatusForbidden],
         headers |-> <<HeaderOption("x-auth-denied", ValueTrue, Nil),
                       HeaderOption("x-auth-reason", d.reason, Nil)>>,
         body |-> d.reason]]

\* buildDenyResponse
DenyResponse(d) ==
    [nil |-> FALSE,
     status |-> [code |-> CodePermissionDenied, message |-> d.reason],
     okResponse |-> Nil,
     deniedResponse |->
        [nil |-> FALSE,
         status |-> [code |-> StatusForbidden],
         headers |-> <<HeaderOption("x-auth-denied", ValueTrue, Nil),
                       HeaderOption("x-auth-reason", d.reason, Nil)>>,
         body |-> Lit("Access Denied: ") \o d.reason]]

\* Mutant of AttributesMissing: the nil test is gone.
AttributesNeverMissing(a) == FALSE

\* Check's test `attrs == nil`.
AttributesMissing(a) == a.nil

\* status.Error(codes.InvalidArgument, "missing attributes")
MissingAttributes ==
    [nil |-> FALSE, code |-> CodeInvalidArgument,
     message |-> Lit("missing attributes")]

\* ----------------------------------------------------------------- logging

LogLine(format, args) == [format |-> format, args |-> args]

\* The lines a range over map m prints, in no fixed order.
LogEach(format, m) == [format |-> format, each |-> {<<k, m[k]>> : k \in DOMAIN m}]

\* The lines logRequestContext writes for the attributes a.
ContextLog(a) ==
    LET r == GetRequest(a)
        http == GetHttp(r)
        httpLines ==
            IF r.nil \/ http.nil THEN <<>>
            ELSE <<LogLine("Method: %s", <<http.method>>),
                   LogLine("Path: %s", <<http.path>>),
                   LogLine("Host: %s", <<http.host>>),
                   LogLine("Scheme: %s", <<http.scheme>>),
                   LogLine("Body size: %d", <<http.size>>),
                   LogLine("Body: %s", <<http.body>>),
                   LogLine("Headers:", <<>>),
                   LogEach("  %s: %s", http.headers)>>
        timeLines ==
            IF r.nil \/ r.time.nil THEN <<>>
            ELSE <<LogLine("Request time: %v", <<r.time>>)>>
        peerLines ==
            (IF a.nil \/ a.source.nil THEN <<>>
             ELSE <<LogLine("Source: %v", <<a.source>>)>>)
            \o (IF a.nil \/ a.destination.nil THEN <<>>
                ELSE <<LogLine("Destination: %v", <<a.destination>>)>>)
        extLines ==
            IF Cardinality(DOMAIN GetContextExtensions(a)) > 0
            THEN <<LogLine("Context Extensions:", <<>>),
                   LogEach("  %s: %s", GetContextExtensions(a))>>
            ELSE <<>>
        tlsLines ==
            IF a.nil \/ a.tlsSession.nil THEN <<>>
            ELSE <<LogLine("TLS SNI: %s", <<a.tlsSession.sni>>)>>
    IN  <<LogLine("=== REQUEST CONTEXT ===", <<>>)>>
            \o httpLines \o timeLines \o peerLines \o extLines \o tlsLines
            \o <<LogLine("=======================", <<>>)>>

\* The wall clock moves on while a request is being served.
Tick ==
    /\ pc \notin {"idle", "returned"}
    /\ ticks < MaxTicks
    /\ clock' = Advance(clock)
    /\ ticks' = ticks + 1
    /\ UNCHANGED <<pc, creq, now, decision, resp, err, logged, steps, first, other>>

\* The transport hands a request to Check at some instant; the handler logs
\* its arrival.
Receive ==
    /\ pc = "idle"
    /\ \E r \in CheckRequests, t \in ArrivalInstants :
        /\ creq' = r
        /\ clock' = t
    /\ pc' = "check"
    /\ logged' = <<LogLine("Received authorization request", <<>>)>>
    /\ steps' = <<"Check">>
    /\ UNCHANGED <<ticks, now, decision, resp, err, first, other>>

\* Check: req.GetAttributes() and the nil test.
CheckAttributes ==
    /\ pc = "check"
    /\ IF AttributesMissing(attrs)
       THEN /\ err' = MissingAttributes
            /\ pc' = "returned"
       ELSE /\ err' = err
            /\ pc' = "log"
    /\ steps' = Append(steps, "GetAttributes")
    /\ UNCHANGED <<creq, clock, ticks, now, decision, resp, logged, first, other>>

\* Check: logRequestContext(attrs).
LogRequestContext ==
    /\ pc = "log"
    /\ logged' = logged \o ContextLog(attrs)
    /\ pc' = "eval"
    /\ steps' = Append(steps, "logRequestContext")
    /\ UNCHANGED <<creq, clock, ticks, now, decision, resp, err, first, other>>

\* Mutant of ExtractRequest: the two nil tests are gone, and the nil-safe
\* accessors let the evaluation go on with empty values.
ExtractRequestUnchecked ==
    /\ pc = "eval"
    /\ decision' = decision
    /\ pc' = FirstRule
    /\ steps' = Append(steps, "evaluatePolicy")
    /\ UNCHANGED <<creq, clock, ticks, now, resp, err, logged, first, other>>

\* evaluatePolicy: the extraction of the request and its HTTP part.
ExtractRequest ==
    /\ pc = "eval"
    /\ IF req.nil
       THEN /\ decision' = DenyDecision(Lit("missing request"))
            /\ pc' = "decided"
       ELSE IF httpReq.nil
       THEN /\ decision' = DenyDecision(Lit("missing HTTP request"))
            /\ pc' = "decided"
       ELSE /\ decision' = decision
            /\ pc' = FirstRule
    /\ steps' = Append(steps, "evaluatePolicy")
    /\ UNCHANGED <<creq, clock, ticks, now, resp, err, logged, first, other>>

\* A rule of the chain: deny with the reason and return, or fall through.
Rule(p, denies, reason) ==
    /\ pc = p
    /\ IF denies
       THEN /\ decision' = DenyDecision(reason)
            /\ pc' = "decided"
       ELSE /\ decision' = decision
            /\ pc' = RuleAfter(p)

Policy1 ==
    /\ Rule("p1", Policy1Denies(path), Policy1Reason(path))
    /\ steps' = Append(steps, "p1")
    /\ UNCHANGED <<creq, clock, ticks, now, resp, err, logged, first, other>>

Policy2 ==
    /\ Rule("p2", Policy2Denies(method, headers), Policy2Reason)
    /\ steps' = Append(steps, "p2")
    /\ UNCHANGED <<creq, clock, ticks, now, resp, err, logged, first, other>>

\* Policy 3 reads the clock once, into now, and tests and prints that reading.
Policy3 ==
    /\ now' = clock
    /\ Rule("p3", Policy3Denies(now'), Policy3Reason(now'))
    /\ steps' = steps \o <<"time.Now", "p3">>
    /\ UNCHANGED <<creq, clock, ticks, resp, err, logged, first, other>>

Policy4 ==
    /\ Rule("p4", Policy4Denies(contextExts, headers), Policy4Reason)
    /\ steps' = Append(steps, "p4")
    /\ UNCHANGED <<creq, clock, ticks, now, resp, err, logged, first, other>>

Policy5 ==
    /\ Rule("p5", Policy5Denies(headers), Policy5Reason)
    /\ steps' = Append(steps, "p5")
    /\ UNCHANGED <<creq, clock, ticks, now, resp, err, logged, first, other>>

\* Mutant of Allow: the decision's header map is the request's own map, so
\* the added headers are written into the request.
AllowWritingRequestHeaders ==
    /\ pc = "allow"
    /\ decision' = AllowDecision(clock, contextExts)
    /\ creq' = [creq EXCEPT !.attributes.request.http.headers =
                    decision'.headers @@ @]
    /\ pc' = "decided"
    /\ steps' = steps \o <<"time.Now", "allow">>
    /\ UNCHANGED <<clock, ticks, now, resp, err, logged, first, other>>

\* The terminal allow: the clock is read again for x-decision-time.
Allow ==
    /\ pc = "allow"
    /\ decision' = AllowDecision(clock, contextExts)
    /\ pc' = "decided"
    /\ steps' = steps \o <<"time.Now", "allow">>
    /\ UNCHANGED <<creq, clock, ticks, now, resp, err, logged, first, other>>

\* Check: the decision is logged and translated into the response.
Respond ==
    /\ pc = "decided"
    /\ IF decision.allowed
       THEN /\ \E o \in KeyOrders(decision.headers) :
                    resp' = AllowResponse(decision, o)
            /\ logged' = Append(logged,
                    LogLine("Request ALLOWED: %s", <<decision.reason>>))
            /\ steps' = Append(steps, "buildAllowResponse")
       ELSE /\ resp' = DenyResponse(decision)
            /\ logged' = Append(logged,
                    LogLine("Request DENIED: %s", <<decision.reason>>))
            /\ steps' = Append(steps, "buildDenyResponse")
    /\ pc' = "returned"
    /\ UNCHANGED <<creq, clock, ticks, now, decision, err, first, other>>

\* The call is over: its locals, its decision and its response are gone.
Finish ==
    /\ pc = "returned"
    /\ pc' = "idle"
    /\ creq' = NoRequest
    /\ ticks' = 0
    /\ now' = NoInstant
    /\ decision' = Nil
    /\ resp' = Nil
    /\ err' = Nil
    /\ logged' = <<>>
    /\ steps' = <<>>
    /\ first' = Nil
    /\ UNCHANGED <<clock, other>>

Next ==
    \/ Tick
    \/ Receive
    \/ CheckAttributes
    \/ LogRequestContext
    \/ ExtractRequest
    \/ Policy1
    \/ Policy2
    \/ Policy3
    \/ Policy4
    \/ Policy5
    \/ Allow
    \/ Respond
    \/ Finish

Spec == Init /\ [][Next]_vars

\* A statement of the handler is executed.
HandlerStep ==
    \/ CheckAttributes
    \/ LogRequestContext
    \/ ExtractRequest
    \/ Policy1
    \/ Policy2
    \/ Policy3
    \/ Policy4
    \/ Policy5
    \/ Allow
    \/ Respond

\* evaluatePolicy is called a second time on the same context: the first
\* decision is kept aside and the evaluation starts over.
EvaluateAgain ==
    /\ pc = "decided"
    /\ first.nil
    /\ first' = decision
    /\ decision' = Nil
    /\ pc' = "eval"
    /\ UNCHANGED <<creq, clock, ticks, now, resp, err, logged, steps, other>>

\* The handler under a clock that stands still, every context evaluated twice.
NextFixedClock ==
    \/ Receive
    \/ CheckAttributes
    \/ LogRequestContext
    \/ ExtractRequest
    \/ Policy1
    \/ Policy2
    \/ Policy3
    \/ Policy4
    \/ Policy5
    \/ Allow
    \/ EvaluateAgain
    \/ Respond
    \/ Finish

SpecFixedClock == Init /\ [][NextFixedClock]_vars

\* ------------------------------------------------------ two invocations

\* The requests served when two invocations run side by side.
ConcurrentRequests ==
    LET http(m, p, h) ==
            [nil |-> FALSE, method |-> m, path |-> p, headers |-> h,
             host |-> Lit("example.com"), scheme |-> Lit("https"), size |-> 0,
             body |-> EmptyString]
        context(r, x) ==
            [attributes |->
                [nil |-> FALSE, request |-> r, contextExtensions |-> x,
                 source |-> Nil, destination |-> Nil, tlsSession |-> Nil]]
        request(m, p, h, x) ==
            context([nil |-> FALSE, http |-> http(m, p, h), time |-> Nil], x)
    IN  {request("GET", PathApiUsers, <<>>, <<>>),
         request("GET", PathApiUsers, "authorization" :> BearerA,
                 ("environment" :> EnvStaging) @@ ("region" :> RegionWest)),
         request("POST", PathApiUsers, <<>>, "region" :> RegionWest),
         request("GET", PathAdminUsers, <<>>, <<>>),
         request("GET", PathAdm, "x-production-access" :> ValueTrueUpper,
                 "environment" :> EnvProduction),
         request("GET", PathApiUsers, "user-agent" :> AgentGoogleBot, <<>>),
         context(Nil, <<>>),
         [attributes |-> Nil]}

\* The frame of the running invocation.
Frame ==
    [pc |-> pc, creq |-> creq, now |-> now, decision |-> decision,
     resp |-> resp, err |-> err, logged |-> logged, steps |-> steps]

\* The server runs each call in a goroutine of its own: the running
\* invocation is set aside and the other one runs on from where it stood.
Switch ==
    /\ other' = Frame
    /\ pc' = other.pc
    /\ creq' = other.creq
    /\ now' = other.now
    /\ decision' = other.decision
    /\ resp' = other.resp
    /\ err' = other.err
    /\ logged' = other.logged
    /\ steps' = other.steps
    /\ UNCHANGED <<clock, ticks, first>>

\* A request arrives while the clock runs on and another call may be under way.
ReceiveBeside ==
    /\ pc = "idle"
    /\ creq' \in ConcurrentRequests
    /\ pc' = "check"
    /\ logged' = <<LogLine("Received authorization request", <<>>)>>
    /\ steps' = <<"Check">>
    /\ UNCHANGED <<clock, ticks, now, decision, resp, err, first, other>>

\* The call is over and its frame is free for a later call.
Release ==
    /\ pc = "returned"
    /\ pc' = "idle"
    /\ creq' = NoRequest
    /\ now' = NoInstant
    /\ decision' = Nil
    /\ resp' = Nil
    /\ err' = Nil
    /\ logged' = <<>>
    /\ steps' = <<>>
    /\ UNCHANGED <<clock, ticks, first, other>>

NextConcurrent ==
    \/ Tick
    \/ ReceiveBeside
    \/ Switch
    \/ CheckAttributes
    \/ LogRequestContext
    \/ ExtractRequest
    \/ Policy1
    \/ Policy2
    \/ Policy3
    \/ Policy4
    \/ Policy5
    \/ Allow
    \/ Respond
    \/ Release

SpecConcurrent == Init /\ [][NextConcurrent]_vars

\* ------------------------------------------------------ paired contexts

BearerB == <<"B", "e", "a", "r", "e", "r", " ", "b">>

\* A peer of the connection and a TLS session, when the gateway reports them.
PeerA == [nil |-> FALSE, address |-> Lit("10.0.0.7"), port |-> 51234]
PeerB == [nil |-> FALSE, address |-> Lit("10.0.0.9"), port |-> 8080]
TlsA == [nil |-> FALSE, sni |-> Lit("backend.example.com")]

\* The contexts whose outcomes are compared with those of a related context.
PairedRequests ==
    LET http(m, p, h) ==
            [nil |-> FALSE, method |-> m, path |-> p, headers |-> h,
             host |-> Lit("example.com"), scheme |-> Lit("https"), size |-> 0,
             body |-> EmptyString]
        context(r, x) ==
            [attributes |->
                [nil |-> FALSE, request |-> r, contextExtensions |-> x,
                 source |-> Nil, destination |-> Nil, tlsSession |-> Nil]]
        request(m, p, h, x) ==
            context([nil |-> FALSE, http |-> http(m, p, h), time |-> Nil], x)
    IN  {request("GET", PathApiUsers, <<>>, <<>>),
         request("GET", PathApiUsers, "authorization" :> BearerA,
                 "region" :> RegionWest),
         request("POST", PathApiUsers, "authorization" :> BearerA, <<>>),
         request("POST", PathAdminUsers, "authorization" :> BearerA, <<>>),
         request("GET", PathApiUsers,
                 ("authorization" :> BearerA) @@ ("user-agent" :> AgentGoogleBot),
                 <<>>),
         request("GET", PathApiUsers, "authorization" :> BearerA,
                 "environment" :> EnvProduction),
         request("", PathApiUsers, <<>>, <<>>),
         request("GET", EmptyString, <<>>, <<>>),
         context([nil |-> FALSE, http |-> Nil, time |-> Nil], <<>>)}

\* The contexts that differ from c at most in what only logRequestContext
\* reads: host, scheme, body, body size, the received-at time, the peers and
\* the TLS session.
LoggedOnlyVariants(c) ==
    IF c.attributes.request.http.nil
    THEN {c, [c EXCEPT !.attributes.source = PeerA,
                       !.attributes.tlsSession = TlsA]}
    ELSE {c,
          [c EXCEPT !.attributes.request.http.host = Lit("internal.example.com"),
                    !.attributes.request.http.scheme = Lit("http"),
                    !.attributes.request.http.size = 2,
                    !.attributes.request.http.body = Lit("{}")],
          [c EXCEPT !.attributes.request.time =
                        [nil |-> FALSE, day |-> 1, hour |-> 3, minute |-> 0],
                    !.attributes.source = PeerA,
                    !.attributes.destination = PeerB,
                    !.attributes.tlsSession = TlsA]}

\* The contexts that differ from c in the value of a non-empty authorization
\* header alone.
CredentialVariants(c) ==
    IF c.attributes.request.http.nil THEN {}
    ELSE LET h == c.attributes.request.http.headers
         IN  IF "authorization" \in DOMAIN h /\ h["authorization"] # EmptyString
             THEN {[c EXCEPT !.attributes.request.http.headers["authorization"] =
                                BearerB]}
             ELSE {}

\* A context of the comparison arrives at the instant the clock shows.
ReceivePaired ==
    /\ pc = "idle"
    /\ creq' \in PairedRequests
    /\ pc' = "check"
    /\ logged' = <<LogLine("Received authorization request", <<>>)>>
    /\ steps' = <<"Check">>
    /\ UNCHANGED <<clock, ticks, now, decision, resp, err, first, other>>

\* Check has returned; its outcome is kept, and Check is invoked on a related
\* context with the clock set back to the instant at which the first began.
InvokeRelated ==
    /\ pc = "returned"
    /\ other.pc = "idle"
    /\ other' = Frame
    /\ creq' \in LoggedOnlyVariants(creq) \cup CredentialVariants(creq)
    /\ clock' = ArrivalOf(clock, ticks)
    /\ ticks' = 0
    /\ pc' = "check"
    /\ now' = NoInstant
    /\ decision' = Nil
    /\ resp' = Nil
    /\ err' = Nil
    /\ logged' = <<LogLine("Received authorization request", <<>>)>>
    /\ steps' = <<"Check">>
    /\ UNCHANGED first

NextPaired ==
    \/ Tick
    \/ ReceivePaired
    \/ CheckAttributes
    \/ LogRequestContext
    \/ ExtractRequest
    \/ Policy1
    \/ Policy2
    \/ Policy3
    \/ Policy4
    \/ Policy5
    \/ Allow
    \/ Respond
    \/ InvokeRelated

SpecPaired == Init /\ [][NextPaired]_vars

\* ------------------------------------------------- scheduled invocations

\* One of a few requests arrives at some instant.
ReceiveScheduled ==
    /\ pc = "idle"
    /\ creq' \in ConcurrentRequests \cup PairedRequests
    /\ clock' \in ArrivalInstants
    /\ pc' = "check"
    /\ logged' = <<LogLine("Received authorization request", <<>>)>>
    /\ steps' = <<"Check">>
    /\ UNCHANGED <<ticks, now, decision, resp, err, first, other>>

NextScheduled ==
    \/ Tick
    \/ ReceiveScheduled
    \/ CheckAttributes
    \/ LogRequestContext
    \/ ExtractRequest
    \/ Policy1
    \/ Policy2
    \/ Policy3
    \/ Policy4
    \/ Policy5
    \/ Allow
    \/ Respond
    \/ Finish

\* The goroutine that runs Check is scheduled again and again: a statement
\* that can be executed is executed in the end.
SpecScheduled == Init /\ [][NextScheduled]_vars /\ WF_vars(HandlerStep)

\* ------------------------------------------------- vocabulary of the claims

\* The invocation serves a context whose request and HTTP part are present.
Served ==
    /\ pc # "idle"
    /\ ~creq.attributes.nil
    /\ ~creq.attributes.request.nil
    /\ ~creq.attributes.request.http.nil

\* evaluatePolicy has returned its decision.
Decided == pc \in {"decided", "returned"} /\ ~decision.nil

TheHttp == creq.attributes.request.http
TheHeaders == TheHttp.headers
TheExtensions == creq.attributes.contextExtensions

ClockWasRead == \E i \in DOMAIN steps : steps[i] = "time.Now"

\* The clock reading the time-window rule sees: the one it took, or the one
\* it would take.
RuleReading == IF ClockWasRead THEN now ELSE clock

PathCondition ==
    /\ Len(TheHttp.path) >= 6
    /\ \A i \in 1..6 : TheHttp.path[i] = <<"/", "a", "d", "m", "i", "n">>[i]

PostCondition ==
    /\ TheHttp.method = "POST"
    /\ ~ \E k \in DOMAIN TheHeaders : k = "authorization" /\ Len(TheHeaders[k]) > 0

HourCondition == RuleReading.hour \notin 9..16

ProductionCondition ==
    /\ \E k \in DOMAIN TheExtensions :
            k = "environment" /\ TheExtensions[k] = <<"production">>
    /\ ~ \E k \in DOMAIN TheHeaders :
            k = "x-production-access" /\ TheHeaders[k] = <<"t", "r", "u", "e">>

BotCondition ==
    \E k \in DOMAIN TheHeaders :
        /\ k = "user-agent"
        /\ \E i \in 1..(Len(TheHeaders[k]) - 2) :
            /\ TheHeaders[k][i] \in {"b", "B"}
            /\ TheHeaders[k][i + 1] \in {"o", "O"}
            /\ TheHeaders[k][i + 2] \in {"t", "T"}

DenyCondition(k) ==
    CASE k = 1 -> PathCondition
      [] k = 2 -> PostCondition
      [] k = 3 -> HourCondition
      [] k = 4 -> ProductionCondition
      [] k = 5 -> BotCondition

PathRuleReason == <<"access denied to admin path: ">> \o TheHttp.path

RuleReason(k) ==
    CASE k = 1 -> PathRuleReason
      [] k = 2 -> <<"POST requests require Authorization header">>
      [] k = 3 ->
            <<"access restricted to business hours (9 AM - 5 PM), current time: ">>
                \o FormatKitchen(RuleReading)
      [] k = 4 -> <<"production environment requires x-production-access header">>
      [] k = 5 -> <<"bot user agents are not allowed">>

\* The lowest-numbered rule whose deny condition holds; 0 when none does.
FirstViolated ==
    IF \E k \in 1..5 : DenyCondition(k)
    THEN CHOOSE k \in 1..5 : DenyCondition(k) /\ \A j \in 1..(k - 1) : ~DenyCondition(j)
    ELSE 0

\* ------------------------------------------------------------------ claims

\* C1: short-circuit reporting.  Whenever evaluatePolicy denies a context
\* whose request and HTTP part are present, the reason is that of the
\* lowest-numbered rule (1 path, 2 POST, 3 time window, 4 production,
\* 5 bot) whose deny condition holds; a POST to an /admin path without an
\* authorization header gets the path rule's reason.
C1_ShortCircuit ==
    (Served /\ Decided /\ ~decision.allowed) =>
        /\ FirstViolated \in 1..5
        /\ decision.reason = RuleReason(FirstViolated)
        /\ (PathCondition /\ PostCondition) => decision.reason = PathRuleReason

\* C1 witness: a POST to /admin/users without authorization has been denied.
C1_Witness ==
    /\ Served /\ Decided /\ ~decision.allowed
    /\ TheHttp.method = "POST"
    /\ TheHttp.path = PathAdminUsers
    /\ "authorization" \notin DOMAIN TheHeaders
    /\ decision.reason = PathRuleReason

\* C2: evaluatePolicy allows, with the fixed reason "request meets all
\* policy requirements", exactly when none of the five deny conditions
\* holds; otherwise it returns allowed = false.
C2_AllowIffNoViolation ==
    (Served /\ Decided) =>
        /\ decision.allowed \in BOOLEAN
        /\ decision.allowed <=> (\A k \in 1..5 : ~DenyCondition(k))
        /\ decision.allowed =>
                decision.reason = <<"request meets all policy requirements">>

\* C2 witness: a production POST carrying authorization and
\* x-production-access: true has been allowed.
C2_Witness ==
    /\ Served /\ Decided /\ decision.allowed
    /\ TheHttp.method = "POST"
    /\ "environment" \in DOMAIN TheExtensions
    /\ TheExtensions["environment"] = EnvProduction
    /\ "user-agent" \in DOMAIN TheHeaders

\* C3: header hygiene.  Every allowed decision asks for exactly the
\* authorization header to be removed, whatever the method, the headers
\* sent and the context extensions.
C3_AllowRemovesAuthorization ==
    (Decided /\ decision.allowed) => decision.headersToRemove = <<"authorization">>

\* C3 witness: a request that carried no authorization header, with context
\* extensions, has been allowed.
C3_Witness ==
    /\ Served /\ Decided /\ decision.allowed
    /\ "authorization" \notin DOMAIN TheHeaders
    /\ DOMAIN TheExtensions = {"environment", "region"}

\* C4: every denied decision has an empty header set and an empty removal
\* list, and the response built from it is the denied shape with only the
\* x-auth-denied and x-auth-reason headers: no allow-side mutation is ever
\* applied to a denied request.
C4_DenyCarriesNoMutation ==
    (Decided /\ ~decision.allowed) =>
        /\ DOMAIN decision.headers = {}
        /\ Len(decision.headersToRemove) = 0
        /\ pc = "returned" =>
            /\ ~resp.nil
            /\ resp.okResponse.nil
            /\ [i \in DOMAIN resp.deniedResponse.headers |->
                    resp.deniedResponse.headers[i].header.key]
                = <<"x-auth-denied", "x-auth-reason">>

\* C4 witness: a production request with a region extension and an
\* authorization header has been denied by the production rule and answered.
C4_Witness ==
    /\ pc = "returned" /\ Served /\ ~decision.allowed
    /\ decision.reason = RuleReason(4)
    /\ "region" \in DOMAIN TheExtensions
    /\ "authorization" \in DOMAIN TheHeaders

\* C5: when the attribute bundle is absent, Check returns the
\* invalid-argument error "missing attributes" and no response; the context
\* is not logged, no rule is evaluated and no response is built.
C5_MissingAttributes ==
    (pc # "idle" /\ creq.attributes.nil) =>
        /\ pc \in {"check", "returned"}
        /\ decision.nil
        /\ resp.nil
        /\ logged = <<[format |-> "Received authorization request", args |-> <<>>]>>
        /\ \A i \in DOMAIN steps : steps[i] \in {"Check", "GetAttributes"}
        /\ pc = "returned" =>
                err = [nil |-> FALSE, code |-> 3, message |-> <<"missing attributes">>]

\* C5 witness: a call without attributes has returned its error.
C5_Witness == pc = "returned" /\ creq.attributes.nil /\ ~err.nil

\* C6: when the attributes are present but the request record or its HTTP
\* part is absent, Check fails with an invalid-argument error; no Decision
\* with allowed = false is made of it and no deny response is returned.
C6_MissingRequestIsInvalidArgument ==
    (/\ pc = "returned"
     /\ ~creq.attributes.nil
     /\ (creq.attributes.request.nil \/ creq.attributes.request.http.nil)) =>
        /\ ~err.nil
        /\ err.code = CodeInvalidArgument
        /\ resp.nil
        /\ decision.nil

\* C7: response translation is total and exclusive.  A call with attributes
\* returns exactly one response and no error: status code 0 with the OK
\* body exactly when the decision allows, status code 7 with the denied
\* body of HTTP status 403 exactly when it denies; before the return there
\* is neither a response nor an error.
C7_ResponseTotalExclusive ==
    (pc # "idle" /\ ~creq.attributes.nil) =>
        /\ err.nil
        /\ pc # "returned" => resp.nil
        /\ pc = "returned" =>
            /\ ~resp.nil
            /\ decision.allowed <=>
                    /\ resp.status.code = 0
                    /\ ~resp.okResponse.nil
                    /\ resp.deniedResponse.nil
            /\ ~decision.allowed <=>
                    /\ resp.status.code = 7
                    /\ resp.okResponse.nil
                    /\ ~resp.deniedResponse.nil
                    /\ resp.deniedResponse.status.code = 403

\* C7 witness: a denied call has returned its response.
C7_Witness ==
    /\ pc = "returned" /\ Served /\ ~decision.allowed
    /\ resp.status.code = 7

\* C8: the deny response for reason r has status message r, HTTP status
\* 403, exactly the headers x-auth-denied = "true" and x-auth-reason = r, and
\* the body "Access Denied: " followed by r; a GET of /admin/users gets the
\* body "Access Denied: access denied to admin path: /admin/users".
C8_DenyResponseShape ==
    (pc = "returned" /\ ~decision.nil /\ ~decision.allowed) =>
        /\ resp.status.message = decision.reason
        /\ resp.deniedResponse.status.code = 403
        /\ Len(resp.deniedResponse.headers) = 2
        /\ resp.deniedResponse.headers[1].header
                = [key |-> "x-auth-denied", value |-> <<"t", "r", "u", "e">>]
        /\ resp.deniedResponse.headers[2].header
                = [key |-> "x-auth-reason", value |-> decision.reason]
        /\ resp.deniedResponse.body = <<"Access Denied: ">> \o decision.reason
        /\ (Served /\ TheHttp.method = "GET" /\ TheHttp.path = PathAdminUsers) =>
                resp.deniedResponse.body =
                    <<"Access Denied: ", "access denied to admin path: ",
                      "/", "a", "d", "m", "i", "n", "/", "u", "s", "e", "r", "s">>

\* C8 witness: a GET of /admin/users has been answered.
C8_Witness ==
    /\ pc = "returned" /\ Served
    /\ TheHttp.method = "GET" /\ TheHttp.path = PathAdminUsers
    /\ ~resp.deniedResponse.nil

\* C9: the allow response has the decision's reason as status message, one
\* header-add entry per key of headersToSet with that key's value and none
\* else, every entry marked replace (append = false), the decision's removal
\* list, no response headers to add and no denied body.
C9_AllowResponseShape ==
    (pc = "returned" /\ ~decision.nil /\ decision.allowed) =>
        LET added == resp.okResponse.headers
        IN  /\ resp.status.message = decision.reason
            /\ Len(added) = Cardinality(DOMAIN decision.headers)
            /\ \A k \in DOMAIN decision.headers :
                \E i \in DOMAIN added :
                    added[i].header = [key |-> k, value |-> decision.headers[k]]
            /\ \A i \in DOMAIN added :
                added[i].append = [nil |-> FALSE, value |-> FALSE]
            /\ resp.okResponse.headersToRemove = decision.headersToRemove
            /\ resp.okResponse.responseHeadersToAdd = <<>>
            /\ resp.deniedResponse.nil

\* C9 witness: an allow response with four added headers has been returned.
C9_Witness ==
    /\ pc = "returned" /\ ~decision.nil /\ decision.allowed
    /\ Len(resp.okResponse.headers) = 4

\* C10: determinism.  Under a clock that stands still, a second evaluation
\* of the same context yields the decision the first one yielded: the same
\* allowed, reason, headers (x-decision-time included) and removal list.
C10_Determinism == (Decided /\ ~first.nil) => decision = first

\* C10 witness: a context has been evaluated twice and allowed.
C10_Witness ==
    /\ Decided /\ ~first.nil /\ decision.allowed
    /\ "x-decision-time" \in DOMAIN decision.headers

\* The rules evaluatePolicy has run so far, in order.
RulesRun == SelectSeq(steps, LAMBDA x : x \in {"p1", "p2", "p3", "p4", "p5"})

\* The decision is a denial made by rule p: p is the last rule that ran.
DeniedBy(p) ==
    /\ Decided
    /\ ~decision.allowed
    /\ Len(RulesRun) > 0
    /\ RulesRun[Len(RulesRun)] = p

\* C12: path rule.  A request is denied by rule 1 exactly when its path
\* starts with "/admin" (case-sensitive), whatever the method, headers,
\* extensions and clock; the reason is "access denied to admin path: "
\* followed by the full path.
C12_PathRule ==
    (Served /\ Decided) =>
        /\ DeniedBy("p1") <=> PathCondition
        /\ DeniedBy("p1") => decision.reason = PathRuleReason
        /\ TheHttp.path = PathAdminCapital => ~DeniedBy("p1")

\* C12 witness: a POST of /administrator from a bot agent, at an hour outside
\* the window, has been denied by the path rule.
C12_Witness ==
    /\ Served /\ DeniedBy("p1")
    /\ TheHttp.path = PathAdministrator
    /\ TheHttp.method = "POST"
    /\ BotCondition
    /\ clock.hour = 23

\* C13: POST rule.  Among requests that pass the path rule, a request is
\* denied by rule 2 exactly when its method is the string "POST" and the
\* authorization header is absent or empty; any other method, "post"
\* included, is never denied by it.
C13_PostRule ==
    (Served /\ Decided /\ ~PathCondition) =>
        /\ DeniedBy("p2") <=>
                /\ TheHttp.method = "POST"
                /\ \/ "authorization" \notin DOMAIN TheHeaders
                   \/ TheHeaders["authorization"] = <<>>
        /\ TheHttp.method # "POST" => ~DeniedBy("p2")

\* C13 witness: a POST whose authorization header is the empty string has
\* been denied by the POST rule.
C13_Witness ==
    /\ Served /\ DeniedBy("p2")
    /\ "authorization" \in DOMAIN TheHeaders
    /\ TheHeaders["authorization"] = <<>>

\* C14: time-window rule.  Among requests that pass rules 1 and 2, a request
\* is denied by rule 3 exactly when the hour h of the clock reading has
\* h < 9 or h >= 17: 9 and 16 pass, 8 and 17 are denied, and no request is
\* allowed when the hour rule 3 read is outside 9..16.
C14_TimeWindowRule ==
    (Served /\ Decided /\ ~PathCondition /\ ~PostCondition) =>
        /\ now.hour \in 0..23
        /\ DeniedBy("p3") <=> (now.hour < 9 \/ now.hour >= 17)
        /\ now.hour \in {9, 16} => ~DeniedBy("p3")
        /\ now.hour \in {8, 17} => DeniedBy("p3")
        /\ decision.allowed => now.hour \in 9..16

\* C14 witness: a request read the clock at hour 17 and was denied by rule 3.
C14_Witness == Served /\ DeniedBy("p3") /\ now.hour = 17

\* C15: environment rule.  Among requests that pass rules 1 to 3, a request
\* is denied by rule 4 exactly when the extension environment is
\* "production" and x-production-access is absent or not the string "true";
\* another environment value or none never triggers it, and a production
\* request with x-production-access: true that passes rule 5 is allowed
\* with x-environment: production.
C15_EnvironmentRule ==
    (Served /\ Decided /\ ~PathCondition /\ ~PostCondition /\ ~HourCondition) =>
        /\ DeniedBy("p4") <=>
                /\ "environment" \in DOMAIN TheExtensions
                /\ TheExtensions["environment"] = <<"production">>
                /\ \/ "x-production-access" \notin DOMAIN TheHeaders
                   \/ TheHeaders["x-production-access"] # <<"t", "r", "u", "e">>
        /\ ("environment" \notin DOMAIN TheExtensions
                \/ TheExtensions["environment"] # <<"production">>)
            => ~DeniedBy("p4")
        /\ (/\ "environment" \in DOMAIN TheExtensions
            /\ TheExtensions["environment"] = <<"production">>
            /\ "x-production-access" \in DOMAIN TheHeaders
            /\ TheHeaders["x-production-access"] = <<"t", "r", "u", "e">>
            /\ ~BotCondition)
            => /\ decision.allowed
               /\ "x-environment" \in DOMAIN decision.headers
               /\ decision.headers["x-environment"] = <<"production">>

\* C15 witness: a production request with x-production-access: true has
\* been allowed.
C15_Witness ==
    /\ Served /\ Decided /\ decision.allowed
    /\ "environment" \in DOMAIN TheExtensions
    /\ TheExtensions["environment"] = <<"production">>

\* C16: bot rule.  Among requests that pass rules 1 to 4, a request is
\* denied by rule 5 exactly when a user-agent header is present and its
\* lower-cased value contains "bot": "Mozilla/5.0 GoogleBot" is denied,
\* "MOZILLA" is not, and a request without user-agent never is.
C16_BotRule ==
    (/\ Served /\ Decided
     /\ ~PathCondition /\ ~PostCondition /\ ~HourCondition /\ ~ProductionCondition) =>
        /\ DeniedBy("p5") <=> BotCondition
        /\ "user-agent" \notin DOMAIN TheHeaders => ~DeniedBy("p5")
        /\ "user-agent" \in DOMAIN TheHeaders =>
            /\ TheHeaders["user-agent"] = AgentGoogleBot => DeniedBy("p5")
            /\ TheHeaders["user-agent"] = AgentMozilla => ~DeniedBy("p5")

\* C16 witness: the agent "Mozilla/5.0 GoogleBot" has been denied by rule 5.
C16_Witness ==
    /\ Served /\ DeniedBy("p5")
    /\ TheHeaders["user-agent"] = AgentGoogleBot

\* C17: optional-field tolerance.  A context with empty context
\* extensions, no headers, no source, destination or TLS session raises no
\* error in logging or evaluation: the context is logged to its closing
\* line and a decision is reached; with empty extensions the environment
\* rule never denies and an allow carries neither x-environment nor x-region.
C17_OptionalFieldTolerance ==
    (/\ pc # "idle"
     /\ ~creq.attributes.nil
     /\ DOMAIN TheExtensions = {}
     /\ creq.attributes.source.nil
     /\ creq.attributes.destination.nil
     /\ creq.attributes.tlsSession.nil) =>
        /\ err.nil
        /\ pc \notin {"check", "log"} =>
            /\ Len(logged) >= 3
            /\ logged[2].format = "=== REQUEST CONTEXT ==="
            /\ \E i \in DOMAIN logged : logged[i].format = "======================="
            /\ \A i \in DOMAIN logged : logged[i].format # "Context Extensions:"
        /\ pc = "returned" => ~decision.nil /\ ~resp.nil
        /\ Decided =>
            /\ ~DeniedBy("p4")
            /\ decision.allowed =>
                    /\ "x-environment" \notin DOMAIN decision.headers
                    /\ "x-region" \notin DOMAIN decision.headers

\* C17 witness: a request without headers and without extensions has been
\* allowed and answered.
C17_Witness ==
    /\ pc = "returned" /\ Served /\ decision.allowed
    /\ DOMAIN TheHeaders = {}
    /\ DOMAIN TheExtensions = {}
    /\ creq.attributes.tlsSession.nil

\* The instant n advances of the clock after t.
AdvancedBy(t, n) ==
    [day |-> t.day + ((t.hour * 60 + t.minute + n * TickMinutes) \div 1440),
     hour |-> ((t.hour * 60 + t.minute + n * TickMinutes) \div 60) % 24,
     minute |-> (t.minute + n * TickMinutes) % 60]

\* C18: allow header set.  An allowed decision's headersToSet holds
\* x-authorized-by = "policy-engine" and x-decision-time (the RFC 3339 form
\* of a clock reading of this invocation), x-environment exactly when the
\* key environment is present, with its value even if empty, x-region
\* exactly when the key region is present, with its value, and nothing else.
C18_AllowHeaderSet ==
    (Served /\ Decided /\ decision.allowed) =>
        /\ DOMAIN decision.headers =
                {"x-authorized-by", "x-decision-time"}
                    \cup {k \in {"x-environment"} : "environment" \in DOMAIN TheExtensions}
                    \cup {k \in {"x-region"} : "region" \in DOMAIN TheExtensions}
        /\ decision.headers["x-authorized-by"] = <<"policy-engine">>
        /\ \E n \in 0..ticks :
                decision.headers["x-decision-time"] = FormatRFC3339(AdvancedBy(now, n))
        /\ "environment" \in DOMAIN TheExtensions =>
                decision.headers["x-environment"] = TheExtensions["environment"]
        /\ "region" \in DOMAIN TheExtensions =>
                decision.headers["x-region"] = TheExtensions["region"]

\* C18 witness: a request whose environment extension is the empty string
\* has been allowed with an empty x-environment.
C18_Witness ==
    /\ Served /\ Decided /\ decision.allowed
    /\ "environment" \in DOMAIN TheExtensions
    /\ TheExtensions["environment"] = <<>>
    /\ decision.headers["x-environment"] = <<>>

\* C19: the AttributeContext is left unchanged by a decision.  From the
\* entry into Check to its return no step changes the request: method,
\* path, headers and context extensions stay what they were.
C19_ContextUnchanged ==
    [][(pc # "idle" /\ pc' # "idle") => creq' = creq]_vars

\* C19 witness: a request carrying authorization, with environment and
\* region extensions, has been allowed and answered, and its headers still
\* hold authorization and no x-environment.
C19_Witness ==
    /\ pc = "returned" /\ Served /\ decision.allowed
    /\ DOMAIN TheExtensions = {"environment", "region"}
    /\ "authorization" \in DOMAIN TheHeaders
    /\ "x-environment" \notin DOMAIN TheHeaders
    /\ resp.okResponse.headersToRemove = <<"authorization">>

\* C20: every decision evaluatePolicy returns, allowed or denied, on every
\* path through the function, has a non-empty reason.
C20_ReasonNonEmpty == (~decision.nil) => Len(decision.reason) > 0

\* C20 witness: the decision for a request without HTTP part has been made.
C20_Witness ==
    /\ Decided
    /\ ~creq.attributes.nil
    /\ ~creq.attributes.request.nil
    /\ creq.attributes.request.http.nil

\* ---------------------------------------------------------------- C11

\* The decision an invocation yields alone for its own context and its own
\* clock readings.
OwnDecisionHolds ==
    IF \E k \in 1..5 : DenyCondition(k)
    THEN decision = [nil |-> FALSE, allowed |-> FALSE,
                     reason |-> RuleReason(FirstViolated),
                     headers |-> <<>>, headersToRemove |-> <<>>]
    ELSE /\ decision.allowed
         /\ decision.reason = <<"request meets all policy requirements">>
         /\ decision.headersToRemove = <<"authorization">>
         /\ DOMAIN decision.headers =
                {"x-authorized-by", "x-decision-time"}
                    \cup {k \in {"x-environment"} : "environment" \in DOMAIN TheExtensions}
                    \cup {k \in {"x-region"} : "region" \in DOMAIN TheExtensions}
         /\ decision.headers["x-authorized-by"] = <<"policy-engine">>
         /\ \E n \in 0..ticks :
                decision.headers["x-decision-time"] = FormatRFC3339(AdvancedBy(now, n))
         /\ "environment" \in DOMAIN TheExtensions =>
                decision.headers["x-environment"] = TheExtensions["environment"]
         /\ "region" \in DOMAIN TheExtensions =>
                decision.headers["x-region"] = TheExtensions["region"]

\* The response is the translation of the invocation's own decision.
OwnResponseHolds ==
    IF decision.allowed
    THEN /\ resp.status.code = 0
         /\ resp.status.message = decision.reason
         /\ Len(resp.okResponse.headers) = Cardinality(DOMAIN decision.headers)
         /\ \A k \in DOMAIN decision.headers :
                \E i \in DOMAIN resp.okResponse.headers :
                    resp.okResponse.headers[i].header =
                        [key |-> k, value |-> decision.headers[k]]
         /\ resp.okResponse.headersToRemove = decision.headersToRemove
         /\ resp.deniedResponse.nil
    ELSE /\ resp.status.code = 7
         /\ resp.status.message = decision.reason
         /\ resp.deniedResponse.status.code = 403
         /\ resp.deniedResponse.body = <<"Access Denied: ">> \o decision.reason
         /\ resp.okResponse.nil

\* What the running invocation holds is what it would hold alone.
OutcomeAsAlone ==
    /\ (pc # "idle" /\ creq.attributes.nil) => (decision.nil /\ resp.nil)
    /\ (pc = "returned" /\ creq.attributes.nil) => ~err.nil
    /\ (Decided /\ ~Served) =>
            /\ ~decision.allowed
            /\ decision.reason \in {<<"missing request">>, <<"missing HTTP request">>}
            /\ decision.headers = <<>>
    /\ (Decided /\ Served) => OwnDecisionHolds
    /\ (pc = "returned" /\ ~decision.nil) => (err.nil /\ OwnResponseHolds)

\* A step either leaves the invocation that is set aside as it is, or sets
\* the running one aside whole and resumes the other as it was left.
OthersUntouched ==
    \/ other' = other
    \/ /\ other' = [pc |-> pc, creq |-> creq, now |-> now, decision |-> decision,
                     resp |-> resp, err |-> err, logged |-> logged, steps |-> steps]
       /\ other = [pc |-> pc', creq |-> creq', now |-> now', decision |-> decision',
                    resp |-> resp', err |-> err', logged |-> logged', steps |-> steps']

\* C11: invocations are independent.  Under any interleaving of two
\* invocations (and any sequence of them) the decision and the response of
\* each are what that invocation yields alone for its own context and its
\* own clock readings, and no step of one changes what the other holds.
C11_InvocationsIndependent ==
    []OutcomeAsAlone /\ [][OthersUntouched]_vars

\* C11 witness: a request without context extensions has been allowed with
\* the two fixed headers alone while the invocation set aside holds an allow
\* decision of its own with x-region and x-environment.
C11_Witness ==
    /\ Served /\ pc = "returned" /\ decision.allowed
    /\ DOMAIN decision.headers = {"x-authorized-by", "x-decision-time"}
    /\ other.pc \in {"decided", "returned"}
    /\ ~other.decision.nil /\ other.decision.allowed
    /\ "x-region" \in DOMAIN other.decision.headers
    /\ \E i \in DOMAIN steps : steps[i] = "time.Now"

\* ---------------------------------------------------------------- C21

\* Two invocations of Check have returned: the first one's outcome is kept in
\* `other`, the second one's is the running frame's.
BothReturned == pc = "returned" /\ other.pc = "returned"

\* The two invocations took the same clock readings: wherever both read the
\* clock for the time-window rule the readings are equal, and wherever both
\* read it for x-decision-time the timestamps written are equal.
ReadTheClock(f) == \E i \in DOMAIN f.steps : f.steps[i] = "time.Now"

SameReadings ==
    /\ (ReadTheClock(other) /\ ClockWasRead) => now = other.now
    /\ (~decision.nil /\ ~other.decision.nil
            /\ decision.allowed /\ other.decision.allowed) =>
        decision.headers["x-decision-time"] = other.decision.headers["x-decision-time"]

\* The two contexts have an HTTP part and agree on method, path, headers and
\* context extensions.
AgreeOnPolicyInputs ==
    LET a == creq.attributes
        b == other.creq.attributes
    IN  /\ ~a.nil /\ ~b.nil
        /\ ~a.request.nil /\ ~b.request.nil
        /\ ~a.request.http.nil /\ ~b.request.http.nil
        /\ a.request.http.method = b.request.http.method
        /\ a.request.http.path = b.request.http.path
        /\ a.request.http.headers = b.request.http.headers
        /\ a.contextExtensions = b.contextExtensions

\* The two responses carry the same entries; only the order of the
\* header-add list may differ.
SameResponseUpToOrder ==
    IF resp.okResponse.nil \/ other.resp.okResponse.nil
    THEN resp = other.resp
    ELSE /\ resp.status = other.resp.status
         /\ resp.deniedResponse = other.resp.deniedResponse
         /\ resp.okResponse.headersToRemove = other.resp.okResponse.headersToRemove
         /\ resp.okResponse.responseHeadersToAdd =
                other.resp.okResponse.responseHeadersToAdd
         /\ Len(resp.okResponse.headers) = Len(other.resp.okResponse.headers)
         /\ {resp.okResponse.headers[i] : i \in DOMAIN resp.okResponse.headers}
              = {other.resp.okResponse.headers[i] :
                    i \in DOMAIN other.resp.okResponse.headers}

\* The part of C21 that the code keeps: equal decisions, and responses equal
\* but for the order of the header-add list.
NonPolicyAttributesDecideNothing ==
    (BothReturned /\ AgreeOnPolicyInputs /\ SameReadings) =>
        /\ decision = other.decision
        /\ SameResponseUpToOrder

\* C21: non-interference of the attributes the rules do not read.  Two
\* contexts that agree on method, path, headers and context extensions and
\* differ only in host, scheme, body, body size, received-at time, source,
\* destination or TLS session yield, for the same clock readings, the same
\* decision and the same response.
C21_NonPolicyAttributesDoNotInterfere ==
    (BothReturned /\ AgreeOnPolicyInputs /\ creq # other.creq /\ SameReadings) =>
        /\ decision = other.decision
        /\ resp = other.resp

\* ---------------------------------------------------------------- C22

\* The places in `steps` at which the clock was read.
ClockReads == {i \in DOMAIN steps : steps[i] = "time.Now"}

\* The place in `steps` at which rule p ran; 0 when it has not run.
RanAt(p) ==
    IF \E i \in DOMAIN steps : steps[i] = p
    THEN CHOOSE i \in DOMAIN steps : steps[i] = p
    ELSE 0

\* C22: rule evaluation order within one invocation.  The rules that have
\* run are rules 1..k in that order, each once; every rule before the last
\* one run has passed; a rule that denies is the last one run; the clock is
\* read for the time-window rule only after the path rule and the POST rule
\* have run and passed, and not at all for a request that rule 1 or rule 2
\* denies.
C22_RuleOrder ==
    Served =>
        /\ Len(RulesRun) <= 5
        /\ \A i \in DOMAIN RulesRun :
                RulesRun[i] = <<"p1", "p2", "p3", "p4", "p5">>[i]
        /\ \A i \in DOMAIN RulesRun :
                i < Len(RulesRun) => ~DenyCondition(i)
        /\ \A i \in DOMAIN RulesRun :
                DenyCondition(i) =>
                    /\ i = Len(RulesRun)
                    /\ pc \in {"decided", "returned"}
                    /\ ~decision.allowed
        /\ \A i \in ClockReads :
                /\ RanAt("p1") \in 1..(i - 1)
                /\ RanAt("p2") \in 1..(i - 1)
                /\ ~PathCondition /\ ~PostCondition
        /\ (DeniedBy("p1") \/ DeniedBy("p2")) => ClockReads = {}
        /\ (RanAt("p3") > 0) => (RanAt("p3") - 1) \in ClockReads

\* C22 witness: a request to an /admin path that arrived outside business
\* hours without the POST rule's header has been denied by rule 1: no other
\* rule has run and the clock has not been read.
C22_Witness ==
    /\ Served /\ DeniedBy("p1")
    /\ RulesRun = <<"p1">>
    /\ TheHttp.method = "POST" /\ "authorization" \notin DOMAIN TheHeaders
    /\ clock.hour = 23
    /\ ClockReads = {}

\* ---------------------------------------------------------------- C23

\* The number a decimal digit stands for.
DigitValue(c) == CHOOSE d \in 0..9 : ToString(d) = c

\* The hour and the minute written in an RFC 3339 timestamp of the model:
\* "day" d "T" h h ":" m m ":" s s "Z".
StampHour(s) == 10 * DigitValue(s[4]) + DigitValue(s[5])
StampMinute(s) == 10 * DigitValue(s[7]) + DigitValue(s[8])

DecisionTime == decision.headers["x-decision-time"]

\* C23 as claimed: when the clock may advance between the reads, the hour
\* written to x-decision-time of every allowed decision is in 9..16.
C23_DecisionTimeInsideWindow ==
    (Served /\ Decided /\ decision.allowed) => StampHour(DecisionTime) \in 9..16

\* C23 as amended: the reading the time-window rule checked has its hour in
\* 9..16; x-decision-time is the timestamp of a later reading of the clock,
\* never earlier than the rule's, whose hour is in 9..16 when the clock has
\* not advanced during the invocation and can be 17 or later otherwise.
C23_DecisionTimeNotBeforeRuleReading ==
    (Served /\ Decided /\ decision.allowed) =>
        /\ now.hour \in 9..16
        /\ \E n \in 0..ticks : DecisionTime = FormatRFC3339(AdvancedBy(now, n))
        /\ 60 * StampHour(DecisionTime) + StampMinute(DecisionTime)
                >= 60 * now.hour + now.minute
        /\ ticks = 0 => StampHour(DecisionTime) \in 9..16

\* C23 witness: the rule read the clock at hour 16 and passed, the clock
\* advanced, and the allowed decision carries an x-decision-time of hour 17.
C23_Witness ==
    /\ Served /\ Decided /\ decision.allowed
    /\ now.hour = 16
    /\ StampHour(DecisionTime) = 17

\* ---------------------------------------------------------------- C24

\* The invocation serves a context without a request record or without its
\* HTTP sub-record.
WithoutRequest ==
    /\ pc # "idle"
    /\ \/ creq.attributes.nil
       \/ creq.attributes.request.nil
       \/ creq.attributes.request.http.nil

\* C24: no evaluation proceeds without a request.  When the request record
\* or its HTTP sub-record is absent, none of the rules 1 to 5 is evaluated,
\* the clock is not read, the outcome is never an allow and no header
\* mutation is produced, whatever the clock shows and whatever the context
\* extensions are.
C24_NoEvaluationWithoutRequest ==
    WithoutRequest =>
        /\ pc \notin {"p1", "p2", "p3", "p4", "p5", "allow"}
        /\ \A i \in DOMAIN steps :
                steps[i] \notin {"p1", "p2", "p3", "p4", "p5", "time.Now", "allow",
                                 "buildAllowResponse"}
        /\ now = NoInstant
        /\ ~decision.nil =>
                /\ ~decision.allowed
                /\ DOMAIN decision.headers = {}
                /\ decision.headersToRemove = <<>>
        /\ ~resp.nil =>
                /\ resp.okResponse.nil
                /\ resp.status.code # 0

\* C24 witness: a context without HTTP sub-record, with the extensions
\* environment and region, that arrived inside business hours has been
\* answered.
C24_Witness ==
    /\ pc = "returned"
    /\ ~creq.attributes.nil
    /\ ~creq.attributes.request.nil
    /\ creq.attributes.request.http.nil
    /\ DOMAIN creq.attributes.contextExtensions = {"environment", "region"}
    /\ clock.hour = 11
    /\ ~resp.nil

\* ---------------------------------------------------------------- C25

\* The context has an HTTP sub-record whose method or path is the empty
\* string.
MethodOrPathMissing ==
    Served /\ (TheHttp.method = "" \/ Len(TheHttp.path) = 0)

\* C25: a context whose HTTP sub-record is present but whose method or path
\* is missing never yields an allow decision (an allow is reached only
\* through all five rules, so it also shows the chain was evaluated).
C25_MissingMethodOrPathNeverAllowed ==
    (MethodOrPathMissing /\ Decided) => ~decision.allowed

\* ---------------------------------------------------------------- C26

\* The path is /admin itself or lies below the segment /admin/.
UnderAdminSegment ==
    /\ PathCondition
    /\ \/ Len(TheHttp.path) = 6
       \/ TheHttp.path[7] = "/"

\* C26: the path rule denies the /admin/* paths.  A request is denied by
\* rule 1 only if its path is /admin or lies below /admin/; a path that
\* merely shares the leading characters, such as /administrator, is not
\* denied by it.
C26_PathRuleDeniesOnlyAdminSegment ==
    (Served /\ DeniedBy("p1")) => UnderAdminSegment

\* ---------------------------------------------------------------- C27

\* The two contexts carry different non-empty authorization values and are
\* the same in everything else.
DifferOnlyInCredential ==
    LET a == creq.attributes
        b == other.creq.attributes
    IN  /\ ~a.nil /\ ~b.nil
        /\ ~a.request.nil /\ ~b.request.nil
        /\ ~a.request.http.nil /\ ~b.request.http.nil
        /\ "authorization" \in DOMAIN a.request.http.headers
        /\ "authorization" \in DOMAIN b.request.http.headers
        /\ Len(a.request.http.headers["authorization"]) > 0
        /\ Len(b.request.http.headers["authorization"]) > 0
        /\ a.request.http.headers["authorization"]
                # b.request.http.headers["authorization"]
        /\ creq = [other.creq EXCEPT
                      !.attributes.request.http.headers["authorization"] =
                          a.request.http.headers["authorization"]]

\* The text s has the text v somewhere inside it.
Within(v, s) ==
    \E i \in 0..(Len(s) - Len(v)) : \A j \in 1..Len(v) : s[i + j] = v[j]

\* The authorization value of the running invocation appears nowhere in its
\* decision's reason and added headers, nor in the deny headers and body.
CredentialUndisclosed ==
    LET v == TheHeaders["authorization"]
    IN  /\ ~Within(v, decision.reason)
        /\ \A k \in DOMAIN decision.headers : ~Within(v, decision.headers[k])
        /\ ~resp.okResponse.nil =>
                \A i \in DOMAIN resp.okResponse.headers :
                    ~Within(v, resp.okResponse.headers[i].header.value)
        /\ ~resp.deniedResponse.nil =>
                /\ ~Within(v, resp.deniedResponse.body)
                /\ \A i \in DOMAIN resp.deniedResponse.headers :
                    ~Within(v, resp.deniedResponse.headers[i].header.value)

\* The part of C27 that the code keeps: equal decisions, responses equal but
\* for the order of the header-add list, and the value disclosed nowhere.
CredentialDecidesNothing ==
    /\ (BothReturned /\ DifferOnlyInCredential /\ SameReadings) =>
            /\ decision = other.decision
            /\ SameResponseUpToOrder
    /\ (pc = "returned" /\ Served /\ ~decision.nil
            /\ "authorization" \in DOMAIN TheHeaders
            /\ Len(TheHeaders["authorization"]) > 0) => CredentialUndisclosed

\* C27: credential non-disclosure.  Two contexts that differ only in the
\* value of a non-empty authorization header yield, for the same clock
\* readings, the same decision and the same response, and the authorization
\* value appears neither in the reason nor in an added header nor in the
\* deny body.
C27_CredentialNonDisclosure ==
    (BothReturned /\ DifferOnlyInCredential /\ SameReadings) =>
        /\ decision = other.decision
        /\ resp = other.resp
        /\ CredentialUndisclosed

\* ---------------------------------------------------------------- C28

\* C28: the response mapping is pure.  Two translations of the same
\* decision yield the same response field for field, the header-add list
\* taken as an ordered sequence included.
C28_ResponseMappingPure ==
    (BothReturned /\ ~decision.nil /\ decision = other.decision) =>
        resp = other.resp

\* The part of C28 that the code keeps: the two responses differ at most in
\* the order of the header-add list, and deny responses not at all.
ResponseMappingPureUpToOrder ==
    (BothReturned /\ ~decision.nil /\ decision = other.decision) =>
        /\ SameResponseUpToOrder
        /\ ~decision.allowed => resp = other.resp

\* ---------------------------------------------------------------- C29

\* The time printed at the end of a rule-3 reason: h ":" m m " " AM/PM.
ShownTime == Tail(decision.reason)

\* The hour, on the 24-hour clock, and the minute that the printed time
\* stands for.
ShownHour ==
    LET h12 == CHOOSE n \in 1..12 : ToString(n) = ShownTime[1]
    IN  IF ShownTime[6] = "PM" THEN (h12 % 12) + 12 ELSE h12 % 12

ShownMinute == 10 * DigitValue(ShownTime[3]) + DigitValue(ShownTime[4])

\* C29: a business-hours denial reports the instant it was decided on.  The
\* time in the reason of a rule-3 denial is that of the clock reading whose
\* hour failed the window test, so the hour shown is below 9 or at least 17,
\* also when the clock advances during the invocation.
C29_ReasonShowsTheReadingTested ==
    (Served /\ DeniedBy("p3")) =>
        /\ Len(decision.reason) = 7
        /\ decision.reason[1] =
            "access restricted to business hours (9 AM - 5 PM), current time: "
        /\ ShownTime[2] = ":" /\ ShownTime[5] = " "
        /\ ShownTime[6] \in {"AM", "PM"}
        /\ ShownHour = now.hour
        /\ ShownMinute = now.minute
        /\ ShownHour < 9 \/ ShownHour >= 17

\* C29 witness: the request arrived at 16:30, the clock advanced before rule
\* 3 read it, and the denial shows an hour of 17.
C29_Witness ==
    /\ Served /\ DeniedBy("p3")
    /\ ticks > 0
    /\ ShownHour = 17
    /\ now = clock

\* ---------------------------------------------------------------- C30

\* An invocation in progress can always execute its next statement.
NeverBlocked == (pc \notin {"idle", "returned"}) => ENABLED HandlerStep

\* A returned invocation has exactly one result: the invalid-argument error
\* and no response, or no error and one response that is either an allow or
\* a deny.
ReturnedOnce ==
    (pc = "returned") =>
        \/ /\ ~err.nil /\ err.code = 3
           /\ resp.nil
        \/ /\ err.nil /\ ~resp.nil
           /\ resp.okResponse.nil # resp.deniedResponse.nil

\* No statement is executed a second time: each occurs once among the
\* statements executed, the clock reading at most twice.
NothingRerun ==
    /\ \A i, j \in DOMAIN steps :
            (steps[i] = steps[j] /\ steps[i] # "time.Now") => i = j
    /\ Cardinality({i \in DOMAIN steps : steps[i] = "time.Now"}) <= 2

\* A statement of the handler adds to the statements executed, and a
\* returned invocation executes nothing more.
NothingResumed ==
    /\ (pc' # pc /\ pc \notin {"idle", "returned"}) => Len(steps') > Len(steps)
    /\ (pc = "returned") => (pc' = "idle" /\ resp' = Nil /\ err' = Nil)

\* C30: every Check invocation terminates.  It is never blocked, executes
\* no statement twice, and an invocation that has begun returns, exactly
\* once, with the invalid-argument error or with one allow or deny response.
C30_Terminates ==
    /\ []NeverBlocked
    /\ []ReturnedOnce
    /\ []NothingRerun
    /\ [][NothingResumed]_vars
    /\ (pc = "check") ~> (pc = "returned")

\* C30 witness: an allowed invocation during which the clock advanced has
\* returned after thirteen statements.
C30_Witness ==
    /\ pc = "returned" /\ ~decision.nil /\ decision.allowed
    /\ ticks > 0
    /\ Len(steps) = 13

====
